---- MODULE Spec2Model ----
(***************************************************************************)
(* JanusClient (src/unnamed/part_003, "src/core/JanusClient.ts"): the      *)
(* signalling client of a Janus videoroom gateway.  The model follows the  *)
(* class member by member: every await of an async method is a point where *)
(* other callbacks may run, so each method is cut into one action per      *)
(* await.  The gateway's answers, the timers and the callers of the public *)
(* methods are the environment.                                            *)
(*                                                                         *)
(* The event bus is the client's own EventEmitter channel 'janus'          *)
(* (the class extends EventEmitter): EmitJanus(e) is emit('janus', e).     *)
(* The poll loop hands what it fetches to handleJanusEvent, which is       *)
(* modelled as written.                                                    *)
(***************************************************************************)
EXTENDS Naturals, Sequences, FiniteSets

\* ------------------------------------------------------------ bounds
MaxTasks == 2        \* subscribeSpeaker invocations per client
MaxStops == 2        \* stop() invocations
MaxDisc  == 2        \* 'disconnected' reports of the publisher connection
MaxSockets == 3      \* Deepgram WebSockets that are not closed, at any one time
MaxLines == 2        \* transcripts kept, over all speakers
MaxTriggers == 3     \* shutdown triggers that fire in one run of the script

\* ------------------------------------------------------------ values
SessionIdVal == 100  \* the session id the gateway issues
FirstHandle  == 200  \* the first handle id the gateway issues
VideoRoom == "janus.plugin.videoroom"

Users   == {"alice", "bob"}
Alice55 == [display |-> "alice", puid |-> "u-alice", id |-> 55]
Bob56   == [display |-> "bob",   puid |-> "u-bob",   id |-> 56]
FeedIds == {Alice55.id, Bob56.id}

Tasks     == 1..MaxTasks
WaiterIds == 0..(2 * MaxTasks)
HandleIds == FirstHandle..(FirstHandle + MaxTasks)

\* ------------------------------------------------------------ events
\* isArray: plugindata.data.publishers is an array (it is absent otherwise);
\* leaving: the feed id under plugindata.data.leaving (0: absent)
Ev(j, pl, vr, snd, i, pubs, js) ==
  [janus |-> j, plugin |-> pl, videoroom |-> vr, sender |-> snd, id |-> i,
   publishers |-> pubs, jsep |-> js, isArray |-> (vr \in {"joined", "event"}),
   leaving |-> 0]

NoEvent   == Ev("", "", "", 0, 0, <<>>, "")
KeepAlive == Ev("keepalive", "", "", 0, 0, <<>>, "")
JoinedEv(i, pubs)  == Ev("event", VideoRoom, "joined", FirstHandle, i, pubs, "")
PublishersEv(pubs) == Ev("event", VideoRoom, "event", FirstHandle, 0, pubs, "")
AttachedEv(h, js)  == Ev("event", VideoRoom, "attached", h, 0, <<>>, js)
HangupEv           == Ev("event", VideoRoom, "hangup", FirstHandle, 0, <<>>, "")
\* The gateway's answer to the publisher's configure: {videoroom: 'event',
\* configured: 'ok'} with jsep {type: 'answer'}
ConfiguredEv       == [Ev("event", VideoRoom, "event", FirstHandle, 0, <<>>, "answer")
                         EXCEPT !.isArray = FALSE]
\* A participant left: {videoroom: 'event', leaving: f}
LeavingEv(f)       == [Ev("event", VideoRoom, "event", FirstHandle, 0, <<>>, "")
                         EXCEPT !.isArray = FALSE, !.leaving = f]

Events ==
  {KeepAlive, HangupEv,
   JoinedEv(7, <<>>), JoinedEv(8, <<Alice55>>), JoinedEv(9, <<Alice55, Bob56>>),
   PublishersEv(<<>>), PublishersEv(<<Alice55>>), PublishersEv(<<Bob56>>)}
  \cup {AttachedEv(h, "offer") : h \in HandleIds \ {FirstHandle}}
  \cup {AttachedEv(FirstHandle + 1, "")}
  \cup {ConfiguredEv, LeavingEv(Alice55.id)}

VARIABLES
  sessionId, handleId, publisherId,   \* 0 stands for undefined
  pc,            \* this.pc: index into pcState, 0 for undefined
  pcState,       \* every RTCPeerConnection created so far: its state ("open" |
                 \* "closed"), the participant it was created for ("" for
                 \* the publisher's own) and the types of its local and remote
                 \* descriptions ("" | "offer" | "answer")
  subscribers,   \* this.subscribers: userId -> [handleId, pc] (pc = 0: no entry)
  pollActive,
  poll,          \* doPoll: "off" | "fetching" | "sleeping" | "stopped"
  init,          \* the initialize / initializeGuestSpeaker call
  initLog,       \* the requests the initialization issued, in order
  tasks,         \* the subscribeSpeaker calls and their local variables
  waiters,       \* the promises of waitForJanusEventWithPredicate, each with its
                 \* listener, the handle id its predicate has captured, the
                 \* description it was given and the error it was rejected with
  notif,         \* what was emitted on 'error', 'warning', ...
  nextHandle,    \* the gateway's next handle id
  iceState, restarts, offersSent, discReports, graceElapsed,
  stops,         \* stop() calls that returned
  localAudioSource, \* this.localAudioSource is set
  trackPc,       \* the connection pc.addTrack(track, ...) was called on (0: none)
  earlier,       \* the poll loop an earlier initialize started, once initialize
                 \* was called again ("none": initialize was called once)
  gwJoined       \* the first 'joined' event a poll fetched while the initialization
                 \* was waiting for it (join acknowledged, waiter pending)

\* DeepgramTranscriptionPlugin (src/src/spaces/plugins/DeepgramTranscriptionPlugin.ts)
VARIABLES
  transcripts,   \* this.transcripts: userId -> [has, lines] (has = FALSE: no entry)
  wsConnections, \* this.wsConnections: userId -> socket (0: no entry)
  usernames,     \* this.usernames: userId -> name ("": no entry)
  sockets,       \* the WebSockets connectLiveTranscription created: the speaker a
                 \* socket was created for and its readyState ("none": the slot
                 \* holds no socket; a socket that is closed and that no map
                 \* entry names any more is dropped)
  microtasks,    \* continuations of initializeDeepgramForUser behind their await:
                 \* <<userId, socket>>, run before any other callback
  sent,          \* userId -> a frame of the speaker was sent on an OPEN socket
  space,         \* this.space is set
  listeners,     \* the userJoined and userLeft handlers are registered on the Space
  serviceWs      \* DeepgramService.ws: the socket created last (0: null)

janusVars == <<sessionId, handleId, publisherId, pc, pcState, subscribers, pollActive,
               poll, init, initLog, tasks, waiters, notif, nextHandle,
               iceState, restarts, offersSent, discReports, graceElapsed, stops, gwJoined,
               localAudioSource, trackPc, earlier>>

dgVars == <<transcripts, wsConnections, usernames, sockets, microtasks, sent,
            space, listeners, serviceWs>>

\* The start-space script (startSpace.ts, main)
VARIABLES
  scriptPc,          \* where main() is: "start", "initializing" (awaiting
                     \* space.initialize), "tweeting" (awaiting sendTweet),
                     \* "running" (signal handlers registered), "exited"
  spaceActive,       \* let spaceActive
  shutdownTimer,     \* let shutdownTimer: "null", "pending" or "fired"
  heartbeatInterval, \* the interval of the heartbeat: "none", "set" or "cleared"
  overtime,          \* Date.now() - startTime > MAX_DURATION_MS
  stopCalls,         \* calls of space.stop()
  stopPending,       \* cleanupAndExit awaits space.stop()
  exitTimer,         \* setTimeout(() => process.exit(0), 2000) is pending
  triggers           \* the shutdown triggers that have fired, in their order

scriptVars == <<scriptPc, spaceActive, shutdownTimer, heartbeatInterval, overtime,
                stopCalls, stopPending, exitTimer, triggers>>

vars == <<janusVars, dgVars, scriptVars>>

outsideJanus  == <<dgVars, scriptVars>>
outsidePlugin == <<janusVars, scriptVars>>
outsideScript == <<janusVars, dgVars>>

clientVars == <<sessionId, handleId, publisherId>>
iceVars    == <<iceState, restarts, offersSent, discReports, graceElapsed>>
audioVars  == <<localAudioSource, trackPc>>

NoSub      == [handleId |-> 0, pc |-> 0]
FreeTask   == [st |-> "free", user |-> "", feed |-> 0, handle |-> 0, pc |-> 0, auto |-> FALSE]
FreshWaiter == [status |-> "none", listening |-> FALSE, result |-> NoEvent, handle |-> 0,
                label |-> "", error |-> ""]

Init ==
  /\ sessionId = 0 /\ handleId = 0 /\ publisherId = 0
  /\ pc = 0 /\ pcState = <<>>
  /\ subscribers = [u \in Users |-> NoSub]
  /\ pollActive = FALSE /\ poll = "off"
  /\ init = [st |-> "idle", role |-> "", pubs |-> <<>>]
  /\ initLog = <<>>
  /\ tasks = [t \in Tasks |-> FreeTask]
  /\ waiters = [w \in WaiterIds |-> FreshWaiter]
  /\ notif = {}
  /\ nextHandle = FirstHandle
  /\ iceState = "new" /\ restarts = 0 /\ offersSent = 0 /\ discReports = 0
  /\ graceElapsed = FALSE
  /\ stops = 0
  /\ gwJoined = NoEvent
  /\ localAudioSource = FALSE /\ trackPc = 0
  /\ earlier = "none"
  /\ transcripts = [u \in Users |-> [has |-> FALSE, lines |-> <<>>]]
  /\ wsConnections = [u \in Users |-> 0]
  /\ usernames = [u \in Users |-> ""]
  /\ sockets = [s \in 1..MaxSockets |-> [owner |-> "", state |-> "none"]]
  /\ microtasks = <<>>
  /\ sent = [u \in Users |-> FALSE]
  /\ space = FALSE /\ listeners = FALSE /\ serviceWs = 0
  /\ scriptPc = "start" /\ spaceActive = FALSE /\ shutdownTimer = "null"
  /\ heartbeatInterval = "none" /\ overtime = FALSE
  /\ stopCalls = 0 /\ stopPending = FALSE /\ exitTimer = FALSE /\ triggers = <<>>


\* ------------------------------------------------------------ helpers
Range(s)   == {s[i] : i \in 1..Len(s)}
Emit(n)    == notif' = notif \cup n
OwnerOf(w) == (w + 1) \div 2      \* the subscribeSpeaker call that owns waiter w > 0
DiscW(t)   == 2 * t - 1           \* its feed-discovery waiter
OfferW(t)  == 2 * t               \* its 'attached' waiter
UsedTasks  == {t \in Tasks : tasks[t].st # "free"}
NewPc(u)   == [state |-> "open", owner |-> u, local |-> "", remote |-> ""]
OpenPcs    == {i \in 1..Len(pcState) : pcState[i].state = "open"}
\* pc.close() on every connection of the set c
Close(c)   == [i \in 1..Len(pcState) |->
                IF i \in c THEN [pcState[i] EXCEPT !.state = "closed"] ELSE pcState[i]]
MapPcs     == {subscribers[u].pc : u \in Users} \ {0}

\* ------------------------------------------------------------ event waiters
\* The same predicates, the 'attached' one without the comparison of the sender.
predicateAnySender(w, e) ==
  IF w = 0
    THEN e.janus = "event" /\ e.plugin = VideoRoom /\ e.videoroom = "joined"
  ELSE IF w = DiscW(OwnerOf(w))
    THEN /\ e.janus = "event" /\ e.plugin = VideoRoom /\ e.videoroom = "event"
         /\ e.isArray /\ Len(e.publishers) > 0
  ELSE /\ e.janus = "event"
       /\ e.plugin = VideoRoom /\ e.videoroom = "attached" /\ e.jsep = "offer"

\* The predicate each call site passes to waitForJanusEventWithPredicate; the
\* one of the 'attached' waiter compares the sender with the subscriber handle.
predicate(w, e) ==
  IF w = 0
    THEN e.janus = "event" /\ e.plugin = VideoRoom /\ e.videoroom = "joined"
  ELSE IF w = DiscW(OwnerOf(w))
    THEN /\ e.janus = "event" /\ e.plugin = VideoRoom /\ e.videoroom = "event"
         /\ e.isArray /\ Len(e.publishers) > 0
  ELSE /\ e.janus = "event" /\ e.sender = waiters[w].handle
       /\ e.plugin = VideoRoom /\ e.videoroom = "attached" /\ e.jsep = "offer"

\* new Promise(...): the timer is armed and the listener added.
waitForJanusEventWithPredicate(ws, w, h, description) ==
  [ws EXCEPT ![w] = [status |-> "pending", listening |-> TRUE, result |-> NoEvent,
                     handle |-> h, label |-> description, error |-> ""]]

\* A listener that settles on every match: the last matching event wins.
eventHandlerLastWins(wr, match, e) ==
  IF wr.listening /\ match
    THEN [wr EXCEPT !.status = IF @ = "rejected" THEN @ ELSE "resolved",
                    !.result = IF wr.status = "rejected" THEN @ ELSE e]
    ELSE wr

\* A listener whose resolve also overrides an earlier rejection.
eventHandlerSettlesAgain(wr, match, e) ==
  IF wr.listening /\ match
    THEN [wr EXCEPT !.listening = FALSE, !.status = "resolved", !.result = e, !.error = ""]
    ELSE wr

\* eventHandler: on a match clearTimeout, removeListener, resolve.  resolve on a
\* promise the timer already rejected changes nothing.
eventHandler(wr, match, e) ==
  IF wr.listening /\ match
    THEN [wr EXCEPT !.listening = FALSE,
                    !.status = IF @ = "pending" THEN "resolved" ELSE @,
                    !.result = IF wr.status = "pending" THEN e ELSE @]
    ELSE wr

\* An emit that stops at the first listener whose predicate the event satisfies.
EmitJanusFirstOnly(e) ==
  /\ \E w \in WaiterIds : waiters[w].listening
  /\ LET hits  == {w \in WaiterIds : waiters[w].listening /\ predicate(w, e)}
         first == IF hits = {} THEN {} ELSE {CHOOSE w \in hits : \A v \in hits : w <= v}
     IN  waiters' = [w \in WaiterIds |-> eventHandler(waiters[w], w \in first, e)]
  /\ UNCHANGED <<clientVars, pc, pcState, subscribers, pollActive, poll, init,
                 initLog, tasks, notif, nextHandle, iceVars, audioVars, earlier, stops, gwJoined>>

\* emit('janus', e): every listener registered on the channel runs on e.
EmitJanus(e) ==
  /\ \E w \in WaiterIds : waiters[w].listening
  /\ waiters' = [w \in WaiterIds |-> eventHandler(waiters[w], predicate(w, e), e)]
  /\ UNCHANGED <<clientVars, pc, pcState, subscribers, pollActive, poll, init,
                 initLog, tasks, notif, nextHandle, iceVars, audioVars, earlier, stops, gwJoined>>

\* Only the 'joined' waiter has a timer.
WaiterTimeoutJoinOnly(w) ==
  /\ w = 0
  /\ waiters[w].status = "pending"
  /\ waiters' = [waiters EXCEPT ![w].status = "rejected", ![w].error = waiters[w].label]
  /\ UNCHANGED <<clientVars, pc, pcState, subscribers, pollActive, poll, init,
                 initLog, tasks, notif, nextHandle, iceVars, audioVars, earlier, stops, gwJoined>>

\* The setTimeout callback of a waiter: reject with the timeout error, which
\* names the description.
WaiterTimeout(w) ==
  /\ waiters[w].status = "pending"
  /\ waiters' = [waiters EXCEPT ![w].status = "rejected", ![w].error = waiters[w].label]
  /\ UNCHANGED <<clientVars, pc, pcState, subscribers, pollActive, poll, init,
                 initLog, tasks, notif, nextHandle, iceVars, audioVars, earlier, stops, gwJoined>>


\* ------------------------------------------------------------ poll loop
\* doPoll up to its fetch: the guard, then the request is in flight.
doPoll == IF pollActive' /\ sessionId' # 0 THEN "fetching" ELSE "stopped"

\* handleJanusEvent: logs, and re-emits a publishers list and a hangup under
\* their own names.  Nothing is emitted on the 'janus' channel.
handleJanusEvent(e) ==
  IF e.janus = "event" /\ e.plugin = VideoRoom
    THEN IF e.videoroom = "event"
           THEN IF e.isArray THEN {<<"publishersUpdated", "handleJanusEvent", 0>>} ELSE {}
         ELSE IF e.videoroom = "hangup"
           THEN {<<"hangup", "handleJanusEvent", 0>>}
         ELSE {}
    ELSE {}

\* The fetch of doPoll returned 200 with event e.
PollEvent(e) ==
  /\ poll = "fetching"
  /\ Emit(handleJanusEvent(e))
  /\ gwJoined' = IF /\ gwJoined = NoEvent /\ init.st = "joinWait"
                    /\ waiters[0].status = "pending" /\ predicate(0, e)
                   THEN e ELSE gwJoined
  /\ poll' = "sleeping"
  /\ UNCHANGED <<clientVars, pc, pcState, subscribers, pollActive, init, initLog,
                 tasks, waiters, nextHandle, iceVars, audioVars, earlier, stops>>

\* A loop that gives up on any failed fetch.
PollErrorGivesUp ==
  /\ poll = "fetching"
  /\ pollActive' = FALSE
  /\ poll' = "stopped"
  /\ UNCHANGED <<clientVars, pc, pcState, subscribers, init, initLog,
                 tasks, waiters, notif, nextHandle, iceVars, audioVars, earlier, stops, gwJoined>>

\* The fetch returned a status other than 200 and 404, or threw.
PollError ==
  /\ poll = "fetching"
  /\ poll' = "sleeping"
  /\ UNCHANGED <<clientVars, pc, pcState, subscribers, pollActive, init, initLog,
                 tasks, waiters, notif, nextHandle, iceVars, audioVars, earlier, stops, gwJoined>>

\* A loop that treats 404 like every other status: warn and poll again.
PollNotFoundContinues ==
  /\ poll = "fetching"
  /\ Emit({<<"error", "doPoll", 0>>})
  /\ poll' = "sleeping"
  /\ UNCHANGED <<clientVars, pc, pcState, subscribers, pollActive, init, initLog,
                 tasks, waiters, nextHandle, iceVars, audioVars, earlier, stops, gwJoined>>

\* The fetch returned 404: the session is gone.
PollNotFound ==
  /\ poll = "fetching"
  /\ pollActive' = FALSE
  /\ Emit({<<"error", "doPoll", 0>>})
  /\ poll' = "stopped"
  /\ UNCHANGED <<clientVars, pc, pcState, subscribers, init, initLog,
                 tasks, waiters, nextHandle, iceVars, audioVars, earlier, stops, gwJoined>>

\* setTimeout(doPoll, 500) fires.
PollTimer ==
  /\ poll = "sleeping"
  /\ UNCHANGED <<clientVars, pollActive>>
  /\ poll' = doPoll
  /\ UNCHANGED <<pc, pcState, subscribers, init, initLog,
                 tasks, waiters, notif, nextHandle, iceVars, audioVars, earlier, stops, gwJoined>>

\* ------------------------------------------------------------ initialization
\* What the gateway answers to a request: the envelope {janus: 'success'}, an
\* envelope with another janus field (both with status 200), or a status that
\* is not OK.
Responses == {"success", "error", "http"}

\* createSession, attachPlugin and createRoom go on when resp.ok holds and
\* json.janus is 'success'; they throw otherwise.
envelopeChecked(r) == r = "success"

\* sendJanusMessage resolves when resp.ok holds: it does not read the body.
sendJanusMessage(r) == r # "http"

InitFailed(origin) ==
  /\ init' = [init EXCEPT !.st = "failed"]
  /\ Emit(origin \cup {<<"error", "initialize", 0>>})

\* initialize() or initializeGuestSpeaker() is called: createSession is sent.
Initialize(role) ==
  /\ init.st = "idle"
  /\ init' = [init EXCEPT !.st = "createSession", !.role = role]
  /\ initLog' = <<"createSession">>
  /\ UNCHANGED <<clientVars, pc, pcState, subscribers, pollActive, poll,
                 tasks, waiters, notif, nextHandle, iceVars, audioVars, earlier, stops, gwJoined>>

\* createSession returned; on success attachPlugin is sent.
CreateSessionReply(r) ==
  /\ init.st = "createSession"
  /\ IF envelopeChecked(r)
       THEN /\ sessionId' = SessionIdVal
            /\ init' = [init EXCEPT !.st = "attach"]
            /\ initLog' = Append(initLog, "attach")
            /\ UNCHANGED notif
       ELSE /\ InitFailed({<<"error", "createSession", 0>>})
            /\ UNCHANGED <<sessionId, initLog>>
  /\ UNCHANGED <<handleId, publisherId, pc, pcState, subscribers, pollActive, poll,
                 tasks, waiters, nextHandle, iceVars, audioVars, earlier, stops, gwJoined>>

CreateSessionResp == \E r \in Responses : CreateSessionReply(r)

\* joinRoom / the guest's join: the waiter is registered, then the join is sent.
SendJoin ==
  /\ waiters' = waitForJanusEventWithPredicate(waiters, 0, 0, "Guest Speaker joined event")
  /\ init' = [init EXCEPT !.st = "joinSend"]
  /\ initLog' = Append(Append(initLog, "startPolling"), "join")

\* attachPlugin returned; on success polling starts and the next request is
\* sent: createRoom for the host, the join for the guest.
InitAttachReply(r) ==
  /\ init.st = "attach"
  /\ IF envelopeChecked(r)
       THEN /\ handleId' = nextHandle
            /\ nextHandle' = nextHandle + 1
            /\ pollActive' = TRUE
            /\ UNCHANGED sessionId
            /\ poll' = doPoll
            /\ IF init.role = "host"
                 THEN /\ init' = [init EXCEPT !.st = "createRoom"]
                      /\ initLog' = Append(Append(initLog, "startPolling"), "createRoom")
                      /\ UNCHANGED waiters
                 ELSE SendJoin
            /\ UNCHANGED notif
       ELSE /\ InitFailed({<<"error", "attachPlugin", 0>>})
            /\ UNCHANGED <<handleId, nextHandle, pollActive, poll, initLog, waiters, sessionId>>
  /\ UNCHANGED <<publisherId, pc, pcState, subscribers,
                 tasks, iceVars, audioVars, earlier, stops, gwJoined>>

InitAttachResp == \E r \in Responses : InitAttachReply(r)

\* createRoom returned (host).
CreateRoomReply(r) ==
  /\ init.st = "createRoom"
  /\ IF envelopeChecked(r)
       THEN /\ waiters' = waitForJanusEventWithPredicate(waiters, 0, 0, "Host Joined Event")
            /\ init' = [init EXCEPT !.st = "joinSend"]
            /\ initLog' = Append(initLog, "join")
            /\ UNCHANGED notif
       ELSE /\ InitFailed({<<"error", "createRoom", 0>>})
            /\ UNCHANGED <<initLog, waiters>>
  /\ UNCHANGED <<clientVars, pc, pcState, subscribers, pollActive, poll,
                 tasks, nextHandle, iceVars, audioVars, earlier, stops, gwJoined>>

CreateRoomResp == \E r \in Responses : CreateRoomReply(r)

\* sendJanusMessage(join) returned.
JoinSendReply(r) ==
  /\ init.st = "joinSend"
  /\ IF sendJanusMessage(r)
       THEN /\ init' = [init EXCEPT !.st = "joinWait"]
            /\ UNCHANGED notif
       ELSE InitFailed({})
  /\ UNCHANGED <<clientVars, pc, pcState, subscribers, pollActive, poll, initLog,
                 tasks, waiters, nextHandle, iceVars, audioVars, earlier, stops, gwJoined>>

JoinSendResp == \E r \in Responses : JoinSendReply(r)

\* setupPeerConnection: a new RTCPeerConnection becomes this.pc; its local
\* description is what configurePublisher sets before it sends the request.
\* enableLocalAudio: without this.pc, or with this.localAudioSource set, it
\* returns; otherwise the source is created and its track added to this.pc.
enableLocalAudio ==
  IF pc' = 0 \/ localAudioSource
    THEN UNCHANGED audioVars
    ELSE localAudioSource' = TRUE /\ trackPc' = pc'

setupPeerConnection(localType) ==
  /\ pcState' = Append(pcState, [NewPc("") EXCEPT !.local = localType])
  /\ pc' = Len(pcState) + 1
  /\ iceState' = "new"

\* The join waiter resolved: the publisher id is taken from the event, the peer
\* connection is set up and configure is sent with the offer.
InitJoined ==
  /\ init.st = "joinWait"
  /\ waiters[0].status = "resolved"
  /\ publisherId' = waiters[0].result.id
  /\ setupPeerConnection("offer")
  /\ enableLocalAudio
  /\ init' = [init EXCEPT !.st = "configure",
                          !.pubs = IF init.role = "guest"
                                     THEN waiters[0].result.publishers ELSE <<>>]
  /\ initLog' = Append(initLog, "configure")
  /\ UNCHANGED <<sessionId, handleId, subscribers, pollActive, poll, tasks, waiters,
                 notif, nextHandle, restarts, offersSent, discReports, graceElapsed,
                 stops, earlier, gwJoined>>

\* The join waiter timed out.
InitJoinTimeout ==
  /\ init.st = "joinWait"
  /\ waiters[0].status = "rejected"
  /\ InitFailed({})
  /\ UNCHANGED <<clientVars, pc, pcState, subscribers, pollActive, poll, initLog,
                 tasks, waiters, nextHandle, iceVars, audioVars, earlier, stops, gwJoined>>


\* ------------------------------------------------------------ subscribeSpeaker
\* subscribeSpeaker(u, f) up to its first await: attachPlugin throws at once
\* when there is no session, else the attach request is sent.
subscribeSpeaker(u, f, auto) ==
  IF sessionId = 0
    THEN [FreeTask EXCEPT !.st = "failed", !.user = u, !.auto = auto]
    ELSE [st |-> "attach", user |-> u, feed |-> f, handle |-> 0, pc |-> 0, auto |-> auto]

Warning(t) == <<"warning", "subscribeSpeaker", t>>

\* The call returned: its local variables are gone.
Returned(t, how) == [FreeTask EXCEPT !.st = how, !.user = tasks[t].user, !.auto = tasks[t].auto]

\* A catch block that tears everything down, as stop() does.
subscribeCatchTearsDown(t, emitted) ==
  /\ tasks' = [tasks EXCEPT ![t] = Returned(t, "failed")]
  /\ Emit(emitted \cup {Warning(t)})
  /\ subscribers' = [u \in Users |-> NoSub]
  /\ pcState' = Close(MapPcs)
  /\ UNCHANGED pc

\* A catch block that warns and then rethrows to the caller.
subscribeCatchRethrows(t, emitted) ==
  /\ tasks' = [tasks EXCEPT ![t] = Returned(t, "raised")]
  /\ Emit(emitted \cup {Warning(t)})
  /\ UNCHANGED <<subscribers, pcState, pc>>

\* The catch block of subscribeSpeaker: log, emit 'warning', return.
subscribeCatch(t, emitted) ==
  /\ tasks' = [tasks EXCEPT ![t] = Returned(t, "failed")]
  /\ Emit(emitted \cup {Warning(t)})
  /\ UNCHANGED <<subscribers, pcState, pc>>

\* A caller invokes subscribeSpeaker(u, f); f = 0 asks for feed discovery.
SubscribeCall(t, u, f) ==
  /\ tasks[t].st = "free"
  /\ \A t2 \in Tasks : t2 < t => tasks[t2].st # "free"
  /\ tasks' = [tasks EXCEPT ![t] = subscribeSpeaker(u, f, FALSE)]
  /\ Emit(IF sessionId = 0 THEN {Warning(t)} ELSE {})
  /\ UNCHANGED <<clientVars, pc, pcState, subscribers, pollActive, poll, init,
                 initLog, waiters, nextHandle, iceVars, audioVars, earlier, stops, gwJoined>>

\* The join of a subscriber: 'subscribedSpeaker' is emitted and the join sent.
joinAsSubscriber(t, f) ==
  /\ tasks' = [tasks EXCEPT ![t].st = "joinSend", ![t].feed = f,
                            ![t].handle = IF @ = 0 THEN nextHandle ELSE @]
  /\ Emit({<<"subscribedSpeaker", "subscribeSpeaker", t>>})

\* attachPlugin of a subscriber returned.
SubAttachResp(t) ==
  /\ tasks[t].st = "attach"
  /\ \/ /\ nextHandle' = nextHandle + 1
        /\ IF tasks[t].feed = 0
             THEN /\ tasks' = [tasks EXCEPT ![t].st = "discover", ![t].handle = nextHandle]
                  /\ waiters' = waitForJanusEventWithPredicate(waiters, DiscW(t), 0,
                                                                 "discover feed_id from publishers")
                  /\ UNCHANGED notif
             ELSE /\ joinAsSubscriber(t, tasks[t].feed)
                  /\ UNCHANGED waiters
        /\ UNCHANGED <<subscribers, pcState, pc>>
     \/ /\ subscribeCatch(t, {<<"error", "attachPlugin", t>>})
        /\ UNCHANGED <<nextHandle, waiters>>
  /\ UNCHANGED <<clientVars, pollActive, poll, init, initLog, iceVars, audioVars, earlier, stops, gwJoined>>

\* list.find(p => p.display === userId || p.periscope_user_id === userId)
find(list, u) ==
  LET hits == {i \in 1..Len(list) : list[i].display = u \/ list[i].puid = u}
  IN  IF hits = {} THEN 0
      ELSE list[CHOOSE i \in hits : \A j \in hits : i <= j].id

\* The discovery waiter settled.
SubDiscovered(t) ==
  /\ tasks[t].st = "discover"
  /\ waiters[DiscW(t)].status = "resolved"
  /\ LET f == find(waiters[DiscW(t)].result.publishers, tasks[t].user)
     IN  IF f = 0
           THEN subscribeCatch(t, {})
           ELSE joinAsSubscriber(t, f) /\ UNCHANGED <<subscribers, pcState, pc>>
  /\ UNCHANGED <<clientVars, pollActive, poll, init, initLog, waiters, nextHandle,
                 iceVars, audioVars, earlier, stops, gwJoined>>

SubDiscoverTimeout(t) ==
  /\ tasks[t].st = "discover"
  /\ waiters[DiscW(t)].status = "rejected"
  /\ subscribeCatch(t, {})
  /\ UNCHANGED <<clientVars, pollActive, poll, init, initLog, waiters, nextHandle,
                 iceVars, audioVars, earlier, stops, gwJoined>>

\* sendJanusMessage(join) of a subscriber returned; on success the waiter for
\* 'attached' with an offer is registered.
SubJoinReply(t, r) ==
  /\ tasks[t].st = "joinSend"
  /\ IF sendJanusMessage(r)
       THEN /\ tasks' = [tasks EXCEPT ![t].st = "offerWait"]
            /\ waiters' = waitForJanusEventWithPredicate(waiters, OfferW(t), tasks[t].handle,
                                                             "subscriber attached + offer")
            /\ UNCHANGED <<notif, subscribers, pcState, pc>>
       ELSE /\ subscribeCatch(t, {})
            /\ UNCHANGED waiters
  /\ UNCHANGED <<clientVars, pollActive, poll, init, initLog, nextHandle,
                 iceVars, audioVars, earlier, stops, gwJoined>>

SubJoinResp(t) == \E r \in Responses : SubJoinReply(t, r)

\* A connection of the list with its descriptions changed
SetDescription(p, side, type) ==
  [pcState EXCEPT ![p] = IF side = "remote" THEN [@ EXCEPT !.remote = type]
                                            ELSE [@ EXCEPT !.local = type]]

\* The offer arrived: the subscriber's RTCPeerConnection is created and
\* setRemoteDescription(offer) is called.
SubOffer(t) ==
  /\ tasks[t].st = "offerWait"
  /\ waiters[OfferW(t)].status = "resolved"
  /\ pcState' = Append(pcState, NewPc(tasks[t].user))
  /\ tasks' = [tasks EXCEPT ![t].st = "setRemote", ![t].pc = Len(pcState) + 1]
  /\ UNCHANGED <<clientVars, pc, subscribers, pollActive, poll, init, initLog, waiters,
                 notif, nextHandle, iceVars, audioVars, earlier, stops, gwJoined>>

SubOfferTimeout(t) ==
  /\ tasks[t].st = "offerWait"
  /\ waiters[OfferW(t)].status = "rejected"
  /\ subscribeCatch(t, {})
  /\ UNCHANGED <<clientVars, pollActive, poll, init, initLog, waiters, nextHandle,
                 iceVars, audioVars, earlier, stops, gwJoined>>

\* setRemoteDescription(offer) returned (then createAnswer and
\* setLocalDescription are called) or threw.
SubRemoteSet(t) ==
  /\ tasks[t].st = "setRemote"
  /\ \/ /\ tasks' = [tasks EXCEPT ![t].st = "answer"]
        /\ pcState' = SetDescription(tasks[t].pc, "remote", "offer")
        /\ UNCHANGED <<notif, subscribers, pc>>
     \/ subscribeCatch(t, {})
  /\ UNCHANGED <<clientVars, pollActive, poll, init, initLog, waiters, nextHandle,
                 iceVars, audioVars, earlier, stops, gwJoined>>

\* The answer was created and set (then 'start' is sent with it) or one of the
\* two calls threw.
SubAnswer(t) ==
  /\ tasks[t].st = "answer"
  /\ \/ /\ tasks' = [tasks EXCEPT ![t].st = "start"]
        /\ pcState' = SetDescription(tasks[t].pc, "local", "answer")
        /\ UNCHANGED <<notif, subscribers, pc>>
     \/ subscribeCatch(t, {})
  /\ UNCHANGED <<clientVars, pollActive, poll, init, initLog, waiters, nextHandle,
                 iceVars, audioVars, earlier, stops, gwJoined>>

\* this.subscribers.set(userId, {handleId, pc})
setSubscriber(subs, u, h, p) == [subs EXCEPT ![u] = [handleId |-> h, pc |-> p]]

\* A subscription that is recorded whatever became of the 'start' request.
SubStartReplyRecordsAnyway(t, r) ==
  /\ tasks[t].st = "start"
  /\ tasks' = [tasks EXCEPT ![t] = Returned(t, IF sendJanusMessage(r) THEN "done" ELSE "failed")]
  /\ subscribers' = setSubscriber(subscribers, tasks[t].user, tasks[t].handle, tasks[t].pc)
  /\ Emit(IF sendJanusMessage(r) THEN {} ELSE {Warning(t)})
  /\ UNCHANGED <<pcState, pc>>
  /\ UNCHANGED <<clientVars, pollActive, poll, init, initLog, waiters, nextHandle,
                 iceVars, audioVars, earlier, stops, gwJoined>>

\* sendJanusMessage(start) returned; on success the subscription is recorded.
SubStartReply(t, r) ==
  /\ tasks[t].st = "start"
  /\ IF sendJanusMessage(r)
       THEN /\ tasks' = [tasks EXCEPT ![t] = Returned(t, "done")]
            /\ subscribers' = setSubscriber(subscribers, tasks[t].user, tasks[t].handle, tasks[t].pc)
            /\ UNCHANGED <<notif, pcState, pc>>
       ELSE subscribeCatch(t, {})
  /\ UNCHANGED <<clientVars, pollActive, poll, init, initLog, waiters, nextHandle,
                 iceVars, audioVars, earlier, stops, gwJoined>>

SubStartResp(t) == \E r \in Responses : SubStartReply(t, r)


\* ------------------------------------------------------------ configure
\* The same calls made without the feed id: subscribeSpeaker(pub.display).
subscribeEachByName(pubs) ==
  LET n == Cardinality(UsedTasks)
  IN  [t \in Tasks |->
         IF t > n /\ t <= n + Len(pubs)
           THEN subscribeSpeaker(pubs[t - n].display, 0, TRUE)
           ELSE tasks[t]]

\* Promise.all(publishers.map(pub => subscribeSpeaker(pub.display, pub.id))):
\* one call per listed publisher, each run up to its first await.
subscribeEach(pubs) ==
  LET n == Cardinality(UsedTasks)
  IN  [t \in Tasks |->
         IF t > n /\ t <= n + Len(pubs)
           THEN subscribeSpeaker(pubs[t - n].display, pubs[t - n].id, TRUE)
           ELSE tasks[t]]

\* sendJanusMessage(configure) returned.  The host is done; the guest goes on
\* to subscribe to every publisher the joined event listed.
ConfigureReply(r) ==
  /\ init.st = "configure"
  /\ IF sendJanusMessage(r)
       THEN \/ /\ init.role = "host"
               /\ init' = [init EXCEPT !.st = "done"]
               /\ UNCHANGED <<tasks, notif>>
            \/ /\ init.role = "guest"
               /\ Cardinality(UsedTasks) + Len(init.pubs) <= MaxTasks
               /\ tasks' = subscribeEach(init.pubs)
               /\ init' = [init EXCEPT !.st = IF init.pubs = <<>> THEN "done" ELSE "subscribing"]
               /\ UNCHANGED notif
       ELSE /\ InitFailed({})
            /\ UNCHANGED tasks
  /\ UNCHANGED <<clientVars, pc, pcState, subscribers, pollActive, poll, initLog,
                 waiters, nextHandle, iceVars, audioVars, earlier, stops, gwJoined>>

ConfigureResp == \E r \in Responses : ConfigureReply(r)

\* Promise.all settled: it rejects as soon as one automatic subscribeSpeaker
\* call rejects ("raised"), and resolves when all of them returned.
InitSubscribed ==
  /\ init.st = "subscribing"
  /\ LET auto == {t \in Tasks : tasks[t].auto}
     IN  IF \E t \in auto : tasks[t].st = "raised"
           THEN InitFailed({})
           ELSE /\ \A t \in auto : tasks[t].st \in {"done", "failed"}
                /\ init' = [init EXCEPT !.st = "done"]
                /\ UNCHANGED notif
  /\ UNCHANGED <<clientVars, pc, pcState, subscribers, pollActive, poll, initLog,
                 tasks, waiters, nextHandle, iceVars, audioVars, earlier, stops, gwJoined>>

\* ------------------------------------------------------------ stop
\* A stop() that closes the connections and leaves the poll loop alone.
StopLeavesPolling ==
  /\ stops < MaxStops
  /\ stops' = stops + 1
  /\ pcState' = Close(MapPcs \cup {pc})
  /\ subscribers' = [u \in Users |-> NoSub]
  /\ pc' = 0
  /\ UNCHANGED <<clientVars, pollActive, poll, init, initLog, tasks, waiters, notif,
                 nextHandle, iceVars, audioVars, earlier, gwJoined>>

\* stop(): polling is switched off, the connections of the Subscription map and
\* this.pc are closed, the map is cleared.
Stop ==
  /\ stops < MaxStops
  /\ stops' = stops + 1
  /\ pollActive' = FALSE
  /\ pcState' = Close(MapPcs \cup {pc})
  /\ subscribers' = [u \in Users |-> NoSub]
  /\ pc' = 0
  /\ UNCHANGED <<clientVars, poll, init, initLog, tasks, waiters, notif, nextHandle,
                 iceVars, audioVars, earlier, gwJoined>>

\* ------------------------------------------------------------ ICE recovery
\* The 'iceconnectionstatechange' listener of setupPeerEvents: on 'disconnected'
\* restartIce() is called at once; it passes its guard when this.pc and
\* this.handleId are set.
IceStateChange(s) ==
  /\ pc # 0 /\ pcState[pc].state = "open"
  /\ s # iceState
  /\ iceState' = s
  /\ IF s = "disconnected"
       THEN /\ discReports < MaxDisc
            /\ discReports' = discReports + 1
            /\ restarts' = IF handleId # 0 THEN restarts + 1 ELSE restarts
       ELSE UNCHANGED <<discReports, restarts>>
  /\ graceElapsed' = FALSE
  /\ UNCHANGED <<clientVars, pc, pcState, subscribers, pollActive, poll, init, initLog,
                 tasks, waiters, notif, nextHandle, offersSent, stops, gwJoined,
                 audioVars, earlier>>

\* restartIce after createOffer({iceRestart: true}) and setLocalDescription:
\* the configure request carrying the restart offer is sent.  When this.pc is
\* gone or a call throws, the error is caught and nothing is sent.
RestartIceSend ==
  /\ restarts > 0
  /\ restarts' = restarts - 1
  /\ \/ /\ pc # 0
        /\ offersSent' = offersSent + 1
     \/ UNCHANGED offersSent
  /\ UNCHANGED <<clientVars, pc, pcState, subscribers, pollActive, poll, init, initLog,
                 tasks, waiters, notif, nextHandle, iceState, discReports, graceElapsed,
                 stops, gwJoined, audioVars, earlier>>

\* The grace period passes with the connection still reported 'disconnected'.
GraceElapses ==
  /\ pc # 0 /\ iceState = "disconnected" /\ ~graceElapsed
  /\ graceElapsed' = TRUE
  /\ UNCHANGED <<clientVars, pc, pcState, subscribers, pollActive, poll, init, initLog,
                 tasks, waiters, notif, nextHandle, iceState, restarts, offersSent,
                 discReports, stops, gwJoined, audioVars, earlier>>

\* ------------------------------------------------------------ a second initialize
\* initialize() or initializeGuestSpeaker() is called again on a client whose
\* earlier call has returned (after stop(), or after it failed).  No field is
\* reset, and a loop the earlier call started keeps its timer or its fetch.
Reinitialize(role) ==
  /\ init.st = "failed" \/ (init.st = "done" /\ stops > 0)
  /\ earlier = "none"
  /\ earlier' = poll
  /\ poll' = "off"
  /\ init' = [init EXCEPT !.st = "createSession", !.role = role]
  /\ initLog' = <<"createSession">>
  /\ UNCHANGED <<clientVars, pc, pcState, subscribers, pollActive, tasks, waiters,
                 notif, nextHandle, iceVars, stops, gwJoined, audioVars>>

\* The fetch of the earlier loop returned 200 with event e.
EarlierPollEvent(e) ==
  /\ earlier = "fetching"
  /\ Emit(handleJanusEvent(e))
  /\ gwJoined' = IF /\ gwJoined = NoEvent /\ init.st = "joinWait"
                    /\ waiters[0].status = "pending" /\ predicate(0, e)
                   THEN e ELSE gwJoined
  /\ earlier' = "sleeping"
  /\ UNCHANGED <<clientVars, pc, pcState, subscribers, pollActive, poll, init, initLog,
                 tasks, waiters, nextHandle, iceVars, stops, audioVars>>

\* The fetch of the earlier loop returned another status than 200 and 404, or threw.
EarlierPollError ==
  /\ earlier = "fetching"
  /\ earlier' = "sleeping"
  /\ UNCHANGED <<clientVars, pc, pcState, subscribers, pollActive, poll, init, initLog,
                 tasks, waiters, notif, nextHandle, iceVars, stops, gwJoined, audioVars>>

\* The fetch of the earlier loop returned 404.
EarlierPollNotFound ==
  /\ earlier = "fetching"
  /\ pollActive' = FALSE
  /\ Emit({<<"error", "doPoll", 0>>})
  /\ earlier' = "stopped"
  /\ UNCHANGED <<clientVars, pc, pcState, subscribers, poll, init, initLog,
                 tasks, waiters, nextHandle, iceVars, stops, gwJoined, audioVars>>

\* The timer of the earlier loop fires: doPoll reads this.pollActive and
\* this.sessionId as they are now.
EarlierPollTimer ==
  /\ earlier = "sleeping"
  /\ earlier' = IF pollActive /\ sessionId # 0 THEN "fetching" ELSE "stopped"
  /\ UNCHANGED <<clientVars, pc, pcState, subscribers, pollActive, poll, init, initLog,
                 tasks, waiters, notif, nextHandle, iceVars, stops, gwJoined, audioVars>>

\* pushLocalAudio(samples): without a source enableLocalAudio() is called first
\* (a call with the source set only pushes the samples).
pushLocalAudio ==
  /\ ~localAudioSource
  /\ UNCHANGED pc
  /\ enableLocalAudio
  /\ UNCHANGED <<clientVars, pcState, subscribers, pollActive, poll, init, initLog,
                 tasks, waiters, notif, nextHandle, iceVars, stops, gwJoined, earlier>>

\* ------------------------------------------------------------ transcription plugin
SocketIds == 1..MaxSockets
Texts     == {"hello", "bye"}
NoSocket  == [owner |-> "", state |-> "none"]
NoLines   == [has |-> FALSE, lines |-> <<>>]

\* new WebSocket(...) in connectLiveTranscription: an object distinct from
\* every socket of socks
newSocket(socks) ==
  LET free == {s \in SocketIds : socks[s].state = "none"}
  IN  IF free = {} THEN 0 ELSE CHOOSE s \in free : \A r \in free : s <= r

Connecting(socks, s, u) == [socks EXCEPT ![s] = [owner |-> u, state |-> "connecting"]]

\* ws.close() on a socket no map entry will name afterwards: an OPEN socket
\* goes through its closing handshake, during which messages still arrive;
\* a socket in another state is gone at once.
Closed(socks, s) ==
  IF s = 0 THEN socks
  ELSE IF socks[s].state = "open" THEN [socks EXCEPT ![s].state = "closing"]
  ELSE IF socks[s].state = "closing" THEN socks
  ELSE [socks EXCEPT ![s] = NoSocket]

\* onAttach: the Space is kept and the two handlers are registered on it
onAttach ==
  /\ ~space /\ ~listeners
  /\ space' = TRUE
  /\ listeners' = TRUE
  /\ UNCHANGED <<transcripts, wsConnections, usernames, sockets, microtasks, sent, serviceWs>>
  /\ UNCHANGED outsidePlugin

\* handleUserJoined, called by the Space through the registered listener
handleUserJoined(u) ==
  /\ microtasks = <<>>
  /\ listeners
  /\ usernames' = [usernames EXCEPT ![u] = u]
  /\ transcripts' = [transcripts EXCEPT ![u] = [has |-> TRUE, lines |-> <<>>]]
  /\ UNCHANGED <<wsConnections, sockets, microtasks, sent, space, listeners, serviceWs>>
  /\ UNCHANGED outsidePlugin

\* handleUserLeft: the socket of the entry is closed, the three entries deleted
handleUserLeft(u) ==
  /\ microtasks = <<>>
  /\ listeners
  /\ sockets' = Closed(sockets, wsConnections[u])
  /\ wsConnections' = [wsConnections EXCEPT ![u] = 0]
  /\ transcripts' = [transcripts EXCEPT ![u] = NoLines]
  /\ usernames' = [usernames EXCEPT ![u] = ""]
  /\ UNCHANGED <<microtasks, sent, space, listeners, serviceWs>>
  /\ UNCHANGED outsidePlugin

\* onAudioData(frame of u).  Without a transcripts entry the entry is made and
\* initializeDeepgramForUser(u) called; it runs up to its await, i.e. the
\* socket is created, and its wsConnections.set is left behind the await.  Then
\* the map is read: on an OPEN socket the frame is sent; otherwise (also when
\* send throws) reconnectDeepgramForUser(u) closes and deletes the entry's
\* socket and calls initializeDeepgramForUser(u) again.  Every socket created
\* is stored in the ws field of the DeepgramService.
onAudioData(u, found, sendThrows) ==
  LET first  == ~transcripts[u].has
      s1     == IF first THEN newSocket(sockets) ELSE 0
      socks1 == IF first THEN Connecting(sockets, s1, u) ELSE sockets
      init1  == IF first THEN <<<<u, s1>>>> ELSE <<>>
      ws     == wsConnections[u]
      isOpen == ws # 0 /\ sockets[ws].state = "open"
      s2     == newSocket(socks1)
  IN  /\ microtasks = <<>>
      /\ first => s1 # 0
      /\ transcripts' = [transcripts EXCEPT ![u].has = TRUE]
      /\ usernames' = IF first /\ found THEN [usernames EXCEPT ![u] = u] ELSE usernames
      /\ IF isOpen /\ ~sendThrows
           THEN /\ sent' = [sent EXCEPT ![u] = TRUE]
                /\ sockets' = socks1
                /\ microtasks' = init1
                /\ serviceWs' = IF first THEN s1 ELSE serviceWs
                /\ UNCHANGED wsConnections
           ELSE /\ s2 # 0
                /\ sockets' = Connecting(Closed(socks1, ws), s2, u)
                /\ wsConnections' = [wsConnections EXCEPT ![u] = 0]
                /\ microtasks' = init1 \o <<<<u, s2>>>>
                /\ serviceWs' = s2
                /\ UNCHANGED sent
      /\ UNCHANGED <<space, listeners>>
      /\ UNCHANGED outsidePlugin

\* The Space hands a frame of speaker u to the plugin attached to it
AudioFrame(u) == space /\ \E found, sendThrows \in BOOLEAN : onAudioData(u, found, sendThrows)

\* initializeDeepgramForUser behind its await: this.wsConnections.set(userId, ws).
\* The socket the entry named before is not closed.
initializeDeepgramForUser ==
  /\ microtasks # <<>>
  /\ LET u == Head(microtasks)[1]
         s == Head(microtasks)[2]
         old == wsConnections[u]
     IN  /\ wsConnections' = [wsConnections EXCEPT ![u] = s]
         /\ sockets' = IF old # 0 /\ old # s /\ sockets[old].state = "closed"
                          THEN [sockets EXCEPT ![old] = NoSocket] ELSE sockets
  /\ microtasks' = Tail(microtasks)
  /\ UNCHANGED <<transcripts, usernames, sent, space, listeners, serviceWs>>
  /\ UNCHANGED outsidePlugin

\* The handshake of a socket completes: 'open'
SocketOpen(s) ==
  /\ microtasks = <<>>
  /\ sockets[s].state = "connecting"
  /\ sockets' = [sockets EXCEPT ![s].state = "open"]
  /\ UNCHANGED <<transcripts, wsConnections, usernames, microtasks, sent, space,
                 listeners, serviceWs>>
  /\ UNCHANGED outsidePlugin

\* Deepgram or the network closes a socket, or the closing handshake of a
\* socket that was closed here completes: 'close'
SocketClose(s) ==
  /\ microtasks = <<>>
  /\ sockets[s].state \in {"connecting", "open", "closing"}
  /\ sockets' = IF \E u \in Users : wsConnections[u] = s
                  THEN [sockets EXCEPT ![s].state = "closed"]
                  ELSE [sockets EXCEPT ![s] = NoSocket]
  /\ UNCHANGED <<transcripts, wsConnections, usernames, microtasks, sent, space,
                 listeners, serviceWs>>
  /\ UNCHANGED outsidePlugin

\* A callback that pushes on one list shared by the speakers
onTranscriptShared(userId, text) ==
  [v \in Users |-> [has |-> TRUE, lines |-> Append(transcripts[v].lines, text)]]

\* The onTranscript callback given to connectLiveTranscription for userId: the
\* text is pushed on the list of userId, which is created when absent.
onTranscript(userId, text) ==
  [transcripts EXCEPT ![userId] = [has |-> TRUE, lines |-> Append(@.lines, text)]]

\* 'message' on socket s with a transcript in it
SocketMessage(s, text) ==
  /\ microtasks = <<>>
  /\ sockets[s].state \in {"open", "closing"}
  /\ Cardinality({p \in Users \X (1..MaxLines) : p[2] <= Len(transcripts[p[1]].lines)}) < MaxLines
  /\ transcripts' = onTranscript(sockets[s].owner, text)
  /\ UNCHANGED <<wsConnections, usernames, sockets, microtasks, sent, space,
                 listeners, serviceWs>>
  /\ UNCHANGED outsidePlugin

\* removeListener(name, f) on the Space: the listener f is removed when it is
\* the function that was registered.  cleanup passes
\* this.handleUserJoined.bind(this), a function made by this very call.
removeListener(registered, sameFunction) == registered /\ ~sameFunction

\* cleanup: the listeners are "removed", the socket of every entry of
\* wsConnections is closed, the three maps are cleared, the Space is dropped.
cleanup ==
  /\ microtasks = <<>>
  /\ space
  /\ listeners' = removeListener(listeners, FALSE)
  /\ sockets' = [s \in SocketIds |->
                   IF \E u \in Users : wsConnections[u] = s
                     THEN Closed(sockets, s)[s] ELSE sockets[s]]
  /\ wsConnections' = [u \in Users |-> 0]
  /\ transcripts' = [u \in Users |-> NoLines]
  /\ usernames' = [u \in Users |-> ""]
  /\ space' = FALSE
  /\ UNCHANGED <<microtasks, sent, serviceWs>>
  /\ UNCHANGED outsidePlugin

\* DeepgramService.disconnect: the socket in this.ws is closed, the field reset
disconnect ==
  /\ microtasks = <<>>
  /\ serviceWs # 0
  /\ sockets' = IF \E u \in Users : wsConnections[u] = serviceWs
                  THEN [sockets EXCEPT ![serviceWs].state = "closed"]
                  ELSE Closed(sockets, serviceWs)
  /\ serviceWs' = 0
  /\ UNCHANGED <<transcripts, wsConnections, usernames, microtasks, sent, space, listeners>>
  /\ UNCHANGED outsidePlugin

\* ------------------------------------------------------------ start-space script
\* A cleanupAndExit without the spaceActive guard
cleanupAndExitUnguarded ==
  /\ spaceActive' = FALSE
  /\ shutdownTimer' = "null"
  /\ stopCalls' = stopCalls + 1
  /\ stopPending' = TRUE

\* cleanupAndExit up to its await: it returns when spaceActive is false;
\* otherwise the flag is reset, the auto-shutdown timer cleared and
\* space.stop() called.
cleanupAndExit ==
  IF ~spaceActive
    THEN UNCHANGED <<spaceActive, shutdownTimer, stopCalls, stopPending>>
    ELSE /\ spaceActive' = FALSE
         /\ shutdownTimer' = "null"
         /\ stopCalls' = stopCalls + 1
         /\ stopPending' = TRUE

\* space.stop() has settled: cleanupAndExit sets the exit timer
StopSettled ==
  /\ scriptPc # "exited" /\ stopPending
  /\ stopPending' = FALSE
  /\ exitTimer' = TRUE
  /\ UNCHANGED <<scriptPc, spaceActive, shutdownTimer, heartbeatInterval, overtime,
                 stopCalls, triggers>>
  /\ UNCHANGED outsideScript

\* process.exit(0) of the exit timer
ProcessExit ==
  /\ scriptPc # "exited" /\ exitTimer
  /\ scriptPc' = "exited"
  /\ exitTimer' = FALSE
  /\ UNCHANGED <<spaceActive, shutdownTimer, heartbeatInterval, overtime,
                 stopCalls, stopPending, triggers>>
  /\ UNCHANGED outsideScript

\* main() up to await space.initialize(config): the heartbeat interval is set
StartMain ==
  /\ scriptPc = "start"
  /\ scriptPc' = "initializing"
  /\ heartbeatInterval' = "set"
  /\ UNCHANGED <<spaceActive, shutdownTimer, overtime, stopCalls, stopPending,
                 exitTimer, triggers>>
  /\ UNCHANGED outsideScript

\* space.initialize(config) settled: on success spaceActive is set and the
\* auto-shutdown timer started; on failure the process exits.
InitializeSettled(ok) ==
  /\ scriptPc = "initializing"
  /\ IF ok
       THEN /\ scriptPc' = "tweeting"
            /\ spaceActive' = TRUE
            /\ shutdownTimer' = "pending"
       ELSE /\ scriptPc' = "exited"
            /\ UNCHANGED <<spaceActive, shutdownTimer>>
  /\ UNCHANGED <<heartbeatInterval, overtime, stopCalls, stopPending, exitTimer, triggers>>
  /\ UNCHANGED outsideScript

\* sendTweet settled: the handlers of SIGINT, SIGTERM and uncaughtException
\* are registered
HandlersRegistered ==
  /\ scriptPc = "tweeting"
  /\ scriptPc' = "running"
  /\ UNCHANGED <<spaceActive, shutdownTimer, heartbeatInterval, overtime, stopCalls,
                 stopPending, exitTimer, triggers>>
  /\ UNCHANGED outsideScript

\* The running time passes MAX_DURATION_MS
TimePasses ==
  /\ scriptPc \notin {"start", "exited"} /\ ~overtime
  /\ overtime' = TRUE
  /\ UNCHANGED <<scriptPc, spaceActive, shutdownTimer, heartbeatInterval, stopCalls,
                 stopPending, exitTimer, triggers>>
  /\ UNCHANGED outsideScript

\* A tick of the heartbeat interval
HeartbeatTick ==
  /\ scriptPc # "exited" /\ heartbeatInterval = "set"
  /\ IF ~spaceActive
       THEN /\ heartbeatInterval' = "cleared"
            /\ UNCHANGED <<spaceActive, shutdownTimer, stopCalls, stopPending, triggers>>
       ELSE IF overtime
         THEN /\ Len(triggers) < MaxTriggers
              /\ triggers' = Append(triggers, "heartbeat")
              /\ heartbeatInterval' = "cleared"
              /\ cleanupAndExit
         ELSE UNCHANGED <<heartbeatInterval, spaceActive, shutdownTimer, stopCalls,
                          stopPending, triggers>>
  /\ UNCHANGED <<scriptPc, overtime, exitTimer>>
  /\ UNCHANGED outsideScript

\* The auto-shutdown timer fires, MAX_DURATION_MS after it was set
ShutdownTimerFires ==
  /\ scriptPc # "exited" /\ shutdownTimer = "pending" /\ overtime
  /\ Len(triggers) < MaxTriggers
  /\ triggers' = Append(triggers, "shutdownTimer")
  /\ IF spaceActive
       THEN cleanupAndExit
       ELSE shutdownTimer' = "fired" /\ UNCHANGED <<spaceActive, stopCalls, stopPending>>
  /\ UNCHANGED <<scriptPc, heartbeatInterval, overtime, exitTimer>>
  /\ UNCHANGED outsideScript

\* SIGINT, SIGTERM or an uncaught exception arrives with the handlers registered
Signal(sig) ==
  /\ scriptPc = "running"
  /\ Len(triggers) < MaxTriggers
  /\ triggers' = Append(triggers, sig)
  /\ cleanupAndExit
  /\ UNCHANGED <<scriptPc, heartbeatInterval, overtime, exitTimer>>
  /\ UNCHANGED outsideScript

\* ------------------------------------------------------------ specification
\* The steps host and guest share
InitSteps ==
  \/ CreateSessionResp
  \/ InitAttachResp
  \/ JoinSendResp
  \/ InitJoined
  \/ InitJoinTimeout
  \/ ConfigureResp

\* The steps of a subscribeSpeaker call that was given the feed id
AutoSubSteps ==
  \/ \E t \in Tasks : SubAttachResp(t)
  \/ \E t \in Tasks : SubJoinResp(t)
  \/ \E t \in Tasks : SubOffer(t)
  \/ \E t \in Tasks : SubOfferTimeout(t)
  \/ \E t \in Tasks : SubRemoteSet(t)
  \/ \E t \in Tasks : SubAnswer(t)
  \/ \E t \in Tasks : SubStartResp(t)

SubSteps ==
  \/ AutoSubSteps
  \/ \E t \in Tasks : SubDiscovered(t)
  \/ \E t \in Tasks : SubDiscoverTimeout(t)

BusSteps ==
  \/ \E e \in Events : EmitJanus(e)
  \/ \E w \in WaiterIds : WaiterTimeout(w)

PollSteps ==
  \/ \E e \in Events : PollEvent(e)
  \/ PollError
  \/ PollNotFound
  \/ PollTimer

\* The fetch of doPoll settles
PollReturn ==
  \/ \E e \in Events : PollEvent(e)
  \/ PollError
  \/ PollNotFound

IceSteps ==
  \/ \E s \in {"connected", "disconnected", "failed"} : IceStateChange(s)
  \/ RestartIceSend
  \/ GraceElapses

Settled == init.st \in {"done", "failed"}
Ready   == init.st \in {"idle", "done"}

\* A caller's subscribeSpeaker(u, f), made before the client is initialized or
\* once the initialization has succeeded.
Subscribe == Ready /\ \E t \in Tasks, u \in Users, f \in {0, Alice55.id} : SubscribeCall(t, u, f)

\* The host as its owner uses it: the client is initialized, and once the
\* initialization has returned the owner subscribes to speakers and stops the
\* client.
Next ==
  /\ UNCHANGED outsideJanus
  /\ \/ Initialize("host")
     \/ InitSteps
     \/ CreateRoomResp
     \/ SubSteps
     \/ BusSteps
     \/ Subscribe
     \/ Settled /\ Stop

Spec == Init /\ [][Next]_vars

\* The initialization with the poll loop running: what the gateway sends
\* arrives through the poll fetches.
NextInit ==
  /\ UNCHANGED outsideJanus
  /\ \/ \E r \in {"host", "guest"} : Initialize(r)
     \/ InitSteps
     \/ CreateRoomResp
     \/ InitSubscribed
     \/ AutoSubSteps
     \/ BusSteps
     \/ PollSteps

SpecInit == Init /\ [][NextInit]_vars

\* The publisher connection of a host: ICE state changes and stop().
NextIce ==
  /\ UNCHANGED outsideJanus
  /\ \/ Initialize("host")
     \/ InitSteps
     \/ CreateRoomResp
     \/ BusSteps
     \/ IceSteps
     \/ Stop

SpecIce == Init /\ [][NextIce]_vars

\* The guest: the initialization subscribes to the publishers the joined event
\* lists, and the owner subscribes to further speakers.
NextGuest ==
  /\ UNCHANGED outsideJanus
  /\ \/ Initialize("guest")
     \/ InitSteps
     \/ InitSubscribed
     \/ SubSteps
     \/ BusSteps
     \/ Subscribe

SpecGuest == Init /\ [][NextGuest]_vars

\* The poll loop of a host that is stopped at any moment from the start of
\* the loop on, or after an initialization that failed before starting it.
\* A timer that was set fires, and a fetch that was issued settles (the gateway
\* answers a long poll with a keepalive at the latest).
NextPoll ==
  /\ UNCHANGED outsideJanus
  /\ \/ Initialize("host")
     \/ InitSteps
     \/ CreateRoomResp
     \/ BusSteps
     \/ PollSteps
     \/ (poll # "off" \/ Settled) /\ Stop

\* Every call of initialize, initializeGuestSpeaker and subscribeSpeaker, with
\* each request and each peer-connection operation they await returning
\* (Returns) and each timer that was set and not cleared firing (Timers).
Returns ==
  \/ InitSteps
  \/ CreateRoomResp
  \/ InitSubscribed
  \/ SubSteps

Timers == \E w \in WaiterIds : WaiterTimeout(w)

NextCalls ==
  /\ UNCHANGED outsideJanus
  /\ \/ \E r \in {"host", "guest"} : Initialize(r)
     \/ Returns
     \/ BusSteps
     \/ Subscribe

SpecCalls ==
  /\ Init /\ [][NextCalls]_vars
  /\ WF_vars(Returns /\ UNCHANGED outsideJanus) /\ WF_vars(Timers /\ UNCHANGED outsideJanus)

\* The host whose owner stops the client with subscribe calls in flight and
\* calls subscribeSpeaker no more afterwards.
NextStop ==
  /\ UNCHANGED outsideJanus
  /\ \/ Initialize("host")
     \/ InitSteps
     \/ CreateRoomResp
     \/ SubSteps
     \/ BusSteps
     \/ stops = 0 /\ Subscribe
     \/ Settled /\ Stop

SpecStop == Init /\ [][NextStop]_vars

\* A client that is initialized, stopped or left after a failed
\* initialization, and initialized a second time, with the poll loops running
\* and the owner pushing audio.
NextReinit ==
  /\ UNCHANGED outsideJanus
  /\ \/ \E r \in {"host", "guest"} : Initialize(r)
     \/ InitSteps
     \/ CreateRoomResp
     \/ BusSteps
     \/ PollSteps
     \/ Settled /\ Stop
     \/ \E r \in {"host", "guest"} : Reinitialize(r)
     \/ \E e \in Events : EarlierPollEvent(e)
     \/ EarlierPollError
     \/ EarlierPollNotFound
     \/ EarlierPollTimer
     \/ pushLocalAudio

SpecReinit == Init /\ [][NextReinit]_vars

SpecPoll ==
  /\ Init /\ [][NextPoll]_vars
  /\ WF_vars(PollTimer /\ UNCHANGED outsideJanus) /\ WF_vars(PollReturn /\ UNCHANGED outsideJanus)

\* The transcription plugin: speakers join and leave, their audio frames
\* arrive, sockets open and close, transcripts come in.
NextDg ==
  /\ \/ onAttach
     \/ \E u \in Users : handleUserJoined(u)
     \/ \E u \in Users : handleUserLeft(u)
     \/ \E u \in Users : AudioFrame(u)
     \/ initializeDeepgramForUser
     \/ \E s \in SocketIds : SocketOpen(s)
     \/ \E s \in SocketIds : SocketClose(s)
     \/ \E s \in SocketIds, x \in Texts : SocketMessage(s, x)

SpecDg == Init /\ [][NextDg]_vars

\* Speakers join, their frames keep arriving, and a socket that stays
\* connecting opens; nobody leaves and no socket is closed from outside.
NextFrames ==
  /\ \/ onAttach
     \/ \E u \in Users : handleUserJoined(u)
     \/ \E u \in Users : AudioFrame(u)
     \/ initializeDeepgramForUser
     \/ \E s \in SocketIds : SocketOpen(s)
     \/ \E s \in SocketIds : sockets[s].state = "closing" /\ SocketClose(s)
     \/ \E s \in SocketIds, x \in Texts : SocketMessage(s, x)

\* The plugin from onAttach to cleanup and after it: speakers join and leave,
\* frames arrive, sockets open.
NextCleanup ==
  /\ \/ onAttach
     \/ \E u \in Users : handleUserJoined(u)
     \/ \E u \in Users : handleUserLeft(u)
     \/ \E u \in Users : AudioFrame(u)
     \/ initializeDeepgramForUser
     \/ \E s \in SocketIds : SocketOpen(s)
     \/ cleanup

SpecCleanup == Init /\ [][NextCleanup]_vars

\* The DeepgramService of the plugin: connectLiveTranscription is called for
\* the frames that arrive, and disconnect() at any moment.
NextService ==
  /\ \/ onAttach
     \/ \E u \in Users : handleUserJoined(u)
     \/ \E u \in Users : AudioFrame(u)
     \/ initializeDeepgramForUser
     \/ \E s \in SocketIds : SocketOpen(s)
     \/ \E s \in SocketIds : SocketClose(s)
     \/ disconnect

SpecService == Init /\ [][NextService]_vars

\* One run of the start-space script
NextScript ==
  \/ StartMain
  \/ \E ok \in BOOLEAN : InitializeSettled(ok)
  \/ HandlersRegistered
  \/ TimePasses
  \/ HeartbeatTick
  \/ ShutdownTimerFires
  \/ \E sig \in {"SIGINT", "SIGTERM", "uncaughtException"} : Signal(sig)
  \/ StopSettled
  \/ ProcessExit

SpecScript == Init /\ [][NextScript]_vars

SpecFrames ==
  /\ Init /\ [][NextFrames]_vars
  /\ \A u \in Users : WF_vars(AudioFrame(u))
  /\ WF_vars(initializeDeepgramForUser)
  /\ \A s \in SocketIds : WF_vars(SocketOpen(s))


\* ------------------------------------------------------------ properties
HostOrder == <<"createSession", "attach", "startPolling", "createRoom", "join", "configure">>
IsPrefix(a, b) == Len(a) <= Len(b) /\ \A i \in 1..Len(a) : a[i] = b[i]
AutoTasks == {t \in Tasks : tasks[t].auto}

\* C1: an event delivered on the bus resolves every pending waiter whose
\* predicate it satisfies, with that event; a pending waiter changes in no
\* other way than by such an event or by its timeout (so an event it does not
\* satisfy leaves it pending), and once it has resolved no step changes it.
\* So a waiter resolves with the first event delivered after its registration
\* that satisfies its predicate, and only once.
C1_ResolvesWithFirstMatch ==
  [][\A w \in WaiterIds :
       LET resolvedWith(e) == waiters'[w].status = "resolved" /\ waiters'[w].result = e
       IN  /\ waiters[w].status = "resolved" => waiters'[w] = waiters[w]
           /\ waiters[w].status = "pending" =>
                /\ \A e \in Events : predicate(w, e) /\ EmitJanus(e) => resolvedWith(e)
                /\ waiters'[w] # waiters[w] =>
                     \/ waiters'[w] = [waiters[w] EXCEPT !.status = "rejected",
                                                         !.error = waiters[w].label]
                     \/ \E e \in Events : predicate(w, e) /\ EmitJanus(e) /\ resolvedWith(e)
    ]_vars

C1_Witness ==
  \E w \in WaiterIds : waiters[w].status = "resolved" /\ predicate(w, waiters[w].result)

\* C2: every event a successful poll fetch returns is published on the bus:
\* each waiter that is pending and whose predicate the event satisfies is
\* resolved with it (a fetched 'joined' event resolves the pending join waiter).
C2_PolledEventIsPublished ==
  [][\A e \in Events : PollEvent(e) =>
       \A w \in WaiterIds : waiters[w].status = "pending" /\ predicate(w, e) =>
         waiters'[w].status = "resolved" /\ waiters'[w].result = e]_vars

\* C3: when the Subscription map entry of a participant is replaced, the peer
\* connection of the earlier entry is closed (never two live subscriptions of
\* one participant).
C3_EarlierConnectionClosed ==
  [][\A u \in Users :
       subscribers[u].pc # 0 /\ subscribers'[u] # subscribers[u] =>
         pcState'[subscribers[u].pc].state = "closed"]_vars

\* C4: when stop() returns no peer connection the client created is open and
\* the Subscription map is empty.
C4_StopLeavesNothingOpen ==
  [][stops' # stops =>
       /\ \A i \in 1..Len(pcState') : pcState'[i].state = "closed"
       /\ \A u \in Users : subscribers'[u] = NoSub]_vars

\* C5: a step at which subscribe(A) fails changes neither the Subscription map
\* entry of another participant B, nor a peer connection created for B, nor a
\* subscribe call for B that is in progress.
C5_FailureLeavesOthersAlone ==
  [][\A t \in Tasks :
       tasks[t].st # "failed" /\ tasks'[t].st = "failed" =>
         \A b \in Users \ {tasks'[t].user} :
           /\ subscribers'[b] = subscribers[b]
           /\ \A i \in 1..Len(pcState) : pcState[i].owner = b => pcState'[i] = pcState[i]
           /\ \A t2 \in Tasks : tasks[t2].user = b => tasks'[t2] = tasks[t2]]_vars

C5_Witness ==
  \E t \in Tasks, b \in Users :
    /\ tasks[t].st = "failed" /\ tasks[t].user # b
    /\ subscribers[b].pc # 0 /\ pcState[subscribers[b].pc].state = "open"

\* C6: no subscribe call ever raises to its caller, so a guest initialization
\* that got as far as subscribing never fails: it completes also when every
\* automatic subscription failed.
C6_SubscribeNeverRaises ==
  /\ \A t \in Tasks : tasks[t].st # "raised"
  /\ init.st = "failed" => AutoTasks = {}

C6_Witness ==
  /\ init.role = "guest" /\ init.st = "done"
  /\ AutoTasks # {}
  /\ \A t \in AutoTasks : tasks[t].st = "failed"
  /\ \E t \in Tasks : /\ ~tasks[t].auto /\ tasks[t].st = "failed"
                        /\ waiters[DiscW(t)].status = "rejected"

\* C7: a failure inside subscribe emits a 'warning' only: no 'error'
\* notification comes from a subscribe call.
C7_NoErrorFromSubscribe ==
  \A n \in notif : n[1] = "error" => n[3] = 0

\* C8: the host's requests are issued in the order create session, attach,
\* start polling, create room, join, configure; and when the gateway delivered
\* a 'joined' event with publisher id p and no publishers while the host was
\* waiting for it, the initialization took p as the publisher id and went on to
\* configure, without subscribing to anyone.
C8_HostCapturesGatewayJoined ==
  init.role = "host" =>
    /\ IsPrefix(initLog, HostOrder)
    /\ AutoTasks = {}
    /\ (gwJoined # NoEvent /\ gwJoined.publishers = <<>> /\ init.st \in {"failed", "done"}) =>
         publisherId = gwJoined.id /\ initLog = HostOrder

C10_NoRestartBeforeGrace ==
  [][offersSent' > offersSent => graceElapsed /\ iceState = "disconnected"]_vars

\* C11: when the publisher connection reports 'failed' while the client has its
\* handle, an ICE restart is started at that very step.
C11_FailedStartsRestart ==
  [][iceState # "failed" /\ iceState' = "failed" /\ handleId # 0 =>
       restarts' = restarts + 1]_vars

PollGone == <<"error", "doPoll", 0>>

\* C12: a fetch that is answered 404 ends the loop: the session is marked
\* inactive and an error notification is emitted at that step, and from then
\* on the loop stays ended and the session inactive (no fetch is issued again).
C12_NotFoundEndsLoop ==
  [][/\ PollNotFound => ~pollActive' /\ PollGone \in notif' /\ poll' = "stopped"
     /\ PollGone \in notif => ~pollActive' /\ poll' = "stopped"]_vars

C12_Witness ==
  PollGone \in notif /\ poll = "stopped" /\ init.st = "done"

\* C13: a fetch that fails otherwise (another status, or an exception) changes
\* nothing but the loop's own position: the next fetch is scheduled.  And
\* while the session is active a scheduled fetch is eventually issued.
C13_ErrorKeepsPolling ==
  /\ [][PollError =>
          /\ poll' = "sleeping"
          /\ UNCHANGED <<clientVars, pc, pcState, subscribers, pollActive, init, initLog,
                         tasks, waiters, notif, nextHandle, iceVars, audioVars, earlier, stops, gwJoined>>]_vars
  /\ (poll = "sleeping" ~> (poll = "fetching" \/ ~pollActive))

C13_Witness ==
  poll = "sleeping" /\ pollActive /\ sessionId # 0 /\ init.st = "done" /\ notif = {}

C14_TimedOutStaysRejected ==
  [][\A w \in WaiterIds :
       /\ WaiterTimeout(w) =>
            /\ waiters'[w].status = "rejected"
            /\ waiters[w].label # "" /\ waiters'[w].error = waiters[w].label
       /\ waiters[w].status = "rejected" =>
            /\ waiters'[w].status = "rejected"
            /\ waiters'[w].error = waiters[w].error
            /\ waiters'[w].result = NoEvent]_vars

\* A waiter that timed out and whose listener then ran on a matching event
C14_Witness ==
  \E w \in WaiterIds : waiters[w].status = "rejected" /\ ~waiters[w].listening

\* C15: a listener is registered on the bus only for a waiter that is pending.
C15_NoListenerAfterSettling ==
  \A w \in WaiterIds : waiters[w].listening => waiters[w].status = "pending"

\* C16: when a request of the initialization sequence is answered with a status
\* that is not OK or with an envelope whose janus field is not 'success', the
\* initialization fails at that step without issuing another request; and a
\* failed initialization issues no request afterwards.
C16_BadResponseAbortsInit ==
  [][/\ \A r \in Responses \ {"success"} :
          \/ CreateSessionReply(r) \/ InitAttachReply(r) \/ CreateRoomReply(r)
          \/ JoinSendReply(r) \/ ConfigureReply(r)
          => init'.st = "failed" /\ initLog' = initLog
     /\ init.st = "failed" => init'.st = "failed" /\ initLog' = initLog]_vars

\* C17: while a request whose event is awaited is in flight, the waiter for
\* that event is already listening: the join of the host or guest with its
\* 'joined' waiter, the join of a subscriber with its 'attached' waiter.
C17_WaiterRegisteredBeforeSend ==
  /\ init.st = "joinSend" => waiters[0].listening
  /\ \A t \in Tasks : tasks[t].st = "joinSend" => waiters[OfferW(t)].listening

\* C18: the 'attached' waiter of a subscription compares the sender with that
\* subscription's own handle id, handle ids of subscriptions differ, and the
\* offer a subscription goes on with was sent by its own handle.
C18_OfferOnlyForOwnHandle ==
  \A t \in Tasks :
    /\ tasks[t].st \in {"offerWait", "setRemote", "answer", "start"} =>
         /\ tasks[t].handle # 0 /\ waiters[OfferW(t)].handle = tasks[t].handle
         /\ \A t2 \in Tasks \ {t} : tasks[t2].handle # tasks[t].handle
    /\ waiters[OfferW(t)].status = "resolved" =>
         waiters[OfferW(t)].result.sender = waiters[OfferW(t)].handle

\* Two subscriptions in flight: one has its offer, the other still waits
C18_Witness ==
  \E t, t2 \in Tasks :
    /\ tasks[t].st = "setRemote" /\ waiters[OfferW(t)].status = "resolved"
    /\ tasks[t2].st = "offerWait" /\ waiters[OfferW(t2)].status = "pending"

\* C20: every initialization that was started returns, and every subscribe
\* call that was started returns.
C20_CallsComplete ==
  /\ (init.st # "idle" ~> init.st \in {"done", "failed"})
  /\ \A t \in Tasks : (tasks[t].st # "free" ~> tasks[t].st \in {"done", "failed"})

\* Calls that returned because the timer of their waiter fired
C20_Witness ==
  /\ init.st = "done"
  /\ \E t, t2 \in Tasks :
       /\ tasks[t].st = "failed" /\ waiters[DiscW(t)].status = "rejected"
       /\ tasks[t2].st = "failed" /\ waiters[OfferW(t2)].status = "rejected"

\* C21: once the configure step has completed successfully the publisher
\* connection has the gateway's answer as its remote description.
C21_AnswerApplied ==
  init.st \in {"subscribing", "done"} /\ pc # 0 => pcState[pc].remote = "answer"

FeedOf(u) == IF u = Alice55.display THEN Alice55.id ELSE Bob56.id

C26_DiscoveryFailsOnlyByTimeout ==
  [][\A t \in Tasks :
       tasks[t].st = "discover" /\ tasks'[t].st = "failed" =>
         waiters[DiscW(t)].status = "rejected"]_vars

\* C27: an event emitted on the bus that satisfies the predicates of two
\* pending waiters resolves both with it; and a step at which one waiter
\* settles leaves every other pending waiter listening.
C27_WaitersIndependent ==
  [][\A w1, w2 \in WaiterIds :
       w1 # w2 /\ waiters[w1].status = "pending" /\ waiters[w2].status = "pending" =>
         /\ \A e \in Events :
              predicate(w1, e) /\ predicate(w2, e) /\ EmitJanus(e) =>
                /\ waiters'[w1].status = "resolved" /\ waiters'[w1].result = e
                /\ waiters'[w2].status = "resolved" /\ waiters'[w2].result = e
         /\ waiters'[w1].status # "pending" /\ waiters'[w2].status = "pending" =>
              waiters'[w2] = waiters[w2] /\ waiters'[w2].listening]_vars

\* Two waiters that resolved with one and the same event
C27_Witness ==
  \E w1, w2 \in WaiterIds :
    /\ w1 # w2
    /\ waiters[w1].status = "resolved" /\ waiters[w2].status = "resolved"
    /\ waiters[w1].result = waiters[w2].result
    /\ \E t \in Tasks : tasks[t].st = "joinSend"

C29_OpenConnectionsTracked ==
  OpenPcs \subseteq (MapPcs \cup {pc} \cup {tasks[t].pc : t \in Tasks})

\* C30: once stop() has returned, a subscribe call that was in flight writes
\* no Subscription map entry, and when it returns the peer connection it
\* created is closed.
C30_NothingRecordedAfterStop ==
  [][stops > 0 /\ stops' = stops =>
       /\ \A u \in Users : subscribers'[u] = NoSub
       /\ \A t \in Tasks :
            tasks[t].pc # 0 /\ tasks'[t].st \in {"done", "failed"} =>
              pcState'[tasks[t].pc].state = "closed"]_vars

\* Sockets created for speaker u that are not closed
LiveSockets(u) ==
  {s \in SocketIds : sockets[s].owner = u /\ sockets[s].state \in {"connecting", "open"}}

\* C23: for every speaker at most one Deepgram WebSocket that was created for
\* the speaker and has not been closed exists at any time, under any sequence
\* of audio frames, user-joined and user-left events.
C23_OneSocketPerSpeaker == \A u \in Users : Cardinality(LiveSockets(u)) <= 1

\* C24: if audio frames keep arriving for a speaker, and every connection that
\* is left alone opens after a finite delay (the fairness of SpecFrames), then
\* eventually a frame of the speaker is sent on an OPEN connection.
C24_FramesEventuallySent ==
  \A u \in Users : ([]<><<AudioFrame(u)>>_vars) => <>sent[u]

\* C25: a transcript received on the connection created for speaker U is
\* appended, in arrival order, to the transcript list of U only; the lists of
\* all other speakers are unchanged.
C25_TranscriptToOwnerOnly ==
  [][\A s \in SocketIds, x \in Texts :
       SocketMessage(s, x) =>
         LET U == sockets[s].owner
         IN  /\ transcripts'[U].lines = Append(transcripts[U].lines, x)
             /\ \A v \in Users \ {U} : transcripts'[v] = transcripts[v]]_vars

\* Both speakers have received a transcript on their own connection
C25_Witness ==
  /\ transcripts["alice"].lines = <<"hello">>
  /\ transcripts["bob"].lines = <<"bye">>

\* C32: when the initialization has failed after the poll loop was started,
\* no further poll fetch is issued once initialize has rejected.
C32_NoFetchAfterFailedInit ==
  [][init.st = "failed" /\ poll # "fetching" => poll' # "fetching"]_vars

\* A loop that has a timer pending or a fetch in flight
Running == {"sleeping", "fetching"}

\* C31: at most one poll loop runs per client at any time, so at most one poll
\* fetch is in flight, also when initialize is called again after stop() or
\* after a failed initialization while the earlier loop has a timer pending.
C31_OnePollLoop ==
  /\ ~(poll \in Running /\ earlier \in Running)
  /\ ~(poll = "fetching" /\ earlier = "fetching")

\* C33: whenever a publisher peer connection exists and local audio has been
\* enabled, the local audio track is attached to the current publisher peer
\* connection, also after stop() followed by a new initialize.
C33_TrackOnCurrentPc ==
  pc # 0 /\ localAudioSource => trackPc = pc

\* Sockets the plugin created that are connecting or open in the next state
StillOpen == {s \in SocketIds : sockets'[s].state \in {"connecting", "open"}}

\* C34: after cleanup() returns, no WebSocket that the plugin created is still
\* open and the transcripts, connections and usernames maps are empty.
C34_CleanupClosesEverything ==
  [][cleanup =>
       /\ StillOpen = {}
       /\ \A u \in Users :
            ~transcripts'[u].has /\ wsConnections'[u] = 0 /\ usernames'[u] = ""]_vars

\* C35: a userJoined or userLeft event that the Space emits after cleanup()
\* leaves the state of the plugin unchanged.
C35_NoEventsAfterCleanup ==
  [][\A u \in Users :
       ~space /\ (handleUserJoined(u) \/ handleUserLeft(u)) => UNCHANGED dgVars]_vars

\* C36: after a speaker has left, a transcript that is delivered late on the
\* connection handleUserLeft closed does not re-create the transcript list
\* of the speaker.
C36_LateTranscriptCreatesNothing ==
  [][\A s \in SocketIds, x \in Texts :
       (/\ SocketMessage(s, x)
        /\ sockets[s].state = "closing"
        /\ ~transcripts[sockets[s].owner].has)
       => ~transcripts'[sockets[s].owner].has]_vars

\* C37: after DeepgramService.disconnect() every WebSocket opened through
\* connectLiveTranscription on the service is closed.
C37_DisconnectClosesAll == [][disconnect => StillOpen = {}]_vars

\* C38: space.stop() is invoked at most once, however many shutdown triggers
\* fire and in whatever order, and the auto-shutdown timer is cancelled by the
\* first cleanup.
C38_StopAtMostOnce ==
  /\ stopCalls <= 1
  /\ stopCalls = 1 => shutdownTimer = "null"

\* Three triggers have fired, among them one after space.stop() was called
C38_Witness ==
  /\ stopCalls = 1 /\ Len(triggers) = MaxTriggers /\ scriptPc = "running"
  /\ triggers[1] = "heartbeat" /\ triggers[2] = "SIGINT"

\* C39: the heartbeat keeps running for as long as the Space is active,
\* whatever the time the initialization took.
C39_HeartbeatWhileActive == spaceActive => heartbeatInterval = "set"

====
